---- MODULE Spec2Model ----
(***************************************************************************)
(* Model of the LoRaWAN end-device example application (src/main.cpp).     *)
(*                                                                         *)
(* The application is one thread: main configures the stack, asks for a    *)
(* join and then dispatches the event queue.  Every stack notification    *)
(* (lora_event_handler) and every delayed send_message retry is a callback *)
(* that the queue runs to completion before the next one.  The LoRaWAN     *)
(* stack and the event queue are external libraries: their return values,  *)
(* the order in which callbacks become due and which callbacks the queue   *)
(* has already taken off as due when break_dispatch() is called are chosen *)
(* by the environment.                                                     *)
(*                                                                         *)
(* Text is modelled as sequences of byte values (ASCII codes); the two     *)
(* buffers are sequences of BUF_SIZE bytes.                                *)
(***************************************************************************)
EXTENDS Integers, Sequences, FiniteSets, TLC

VARIABLES
    pc,             \* position of main
    exit_code,      \* <<value returned by main>>, empty while main runs
    main_calls,     \* stack calls made by main so far, with their results
    duty_cycle_on,  \* MBED_CONF_LORA_DUTY_CYCLE_ON of the build
    is_class_c,     \* the mode flag
    green_led,
    blue_led,
    tx_buffer,
    rx_buffer,
    receive_count,
    pending,        \* delayed send_message retries asked for with call_in
                    \* that have not run yet
    break_requested,\* ev_queue.break_dispatch() was called
    due,            \* callbacks taken off the queue as due together with the
                    \* one that called break_dispatch(), still to run
    last,           \* the callback dispatched last and what the stack handed it
    before,         \* the application state when that callback started
    calls,          \* stack and queue calls made by that callback
    ops,            \* send operations entered by that callback
    retry_sends     \* lorawan.send calls made by delayed retries so far, modulo 2

vars == <<pc, exit_code, main_calls, duty_cycle_on, is_class_c, green_led,
          blue_led, tx_buffer, rx_buffer, receive_count, pending,
          break_requested, due, last, before, calls, ops, retry_sends>>

----------------------------------------------------------------------------
(* Program constants *)

BUF_SIZE == 30
MAX_NUMBER_OF_EVENTS == 10
RETRY_DELAY_MS == 3000
ON == 1
OFF == 0
LORAWAN_STATUS_OK == 0
LORAWAN_STATUS_WOULD_BLOCK == -1001
LORAWAN_STATUS_BUSY == -1000
LORAWAN_STATUS_CONNECT_IN_PROGRESS == -1016
MBED_CONF_LORA_APP_PORT == 15
MSG_UNCONFIRMED_FLAG == 1
COUNT_MOD == 256

(* Bounds of the exploration *)
MaxRx == 3
MaxPending == 2
MaxDue == 1
MaxLivePending == 2
MaxLiveRx == 1

CLASS_A == "CLASS_A"
CLASS_C == "CLASS_C"

Msg_ClassCSwitch == <<67, 108, 97, 115, 115, 67, 83, 119, 105, 116, 99, 104>>
Msg_ClassASwitch == <<67, 108, 97, 115, 115, 65, 83, 119, 105, 116, 99, 104>>
Msg_ClassAInit == <<67, 108, 97, 115, 115, 65, 73, 110, 105, 116>>
Msg_ClassCInit == <<67, 108, 97, 115, 115, 67, 73, 110, 105, 116>>
Msg_DataFromEndDevice ==
    <<68, 97, 116, 97, 70, 114, 111, 109, 69, 110, 100, 68, 101, 118, 105, 99, 101>>

----------------------------------------------------------------------------
(* C library helpers, as the code uses them on the 30-byte buffers *)

Zeros == [i \in 1..BUF_SIZE |-> 0]

\* memset(buf, 0, sizeof(buf))
memset0(buf) == Zeros

\* sprintf((char *) buf, text) for a text without conversions: the text and
\* its terminating zero are written, the bytes after them are left alone.
sprintf(buf, text) ==
    [i \in 1..BUF_SIZE |->
        IF i <= Len(text) THEN text[i]
        ELSE IF i = Len(text) + 1 THEN 0
        ELSE buf[i]]

\* the first n bytes of buf: what lorawan.send(port, buf, n, flags) transmits
Bytes(buf, n) == [i \in 1..n |-> buf[i]]

\* a comparison of the literal's bytes only, as strncmp would make
streq_prefix(buf, literal) ==
    \A i \in 1..Len(literal) : buf[i] = literal[i]

\* strcmp((char *) buf, literal) == 0: every byte of the literal matches and
\* the byte after them is the terminating zero.
streq(buf, literal) ==
    /\ \A i \in 1..Len(literal) : buf[i] = literal[i]
    /\ buf[Len(literal) + 1] = 0

\* lorawan.receive(rx_buffer, sizeof(rx_buffer), port, flags) copying a
\* downlink of at most BUF_SIZE bytes to the start of the buffer.
copy_in(buf, data) ==
    [i \in 1..BUF_SIZE |-> IF i <= Len(data) THEN data[i] ELSE buf[i]]

\* the text of a downlink read as a C string: its bytes before the first zero
RECURSIVE CText(_)
CText(data) ==
    IF data = <<>> \/ Head(data) = 0 THEN <<>>
    ELSE <<Head(data)>> \o CText(Tail(data))

----------------------------------------------------------------------------
(* The application state a callback works on, as one record *)

AppState ==
    [is_class_c |-> is_class_c, green_led |-> green_led, blue_led |-> blue_led,
     tx_buffer |-> tx_buffer, rx_buffer |-> rx_buffer,
     receive_count |-> receive_count, pending |-> pending,
     break_requested |-> break_requested, halted |-> FALSE,
     calls |-> <<>>, ops |-> <<>>]

\* the part of it a callback can leave changed
Snapshot(s) ==
    [is_class_c |-> s.is_class_c, green_led |-> s.green_led,
     blue_led |-> s.blue_led, tx_buffer |-> s.tx_buffer,
     rx_buffer |-> s.rx_buffer, receive_count |-> s.receive_count,
     pending |-> s.pending, break_requested |-> s.break_requested]

Log(s, call) == [s EXCEPT !.calls = Append(@, call)]

\* the calls of one function in a log
CallsToIn(log, name) == SelectSeq(log, LAMBDA c : c.fn = name)

\* ev_queue.call_in(3000, send_message): one more delayed retry.  The
\* application never looks at what call_in returns and applies no limit of
\* its own, so every call counts as a retry it has asked for.
call_in(s) ==
    [Log(s, [fn |-> "call_in", ms |-> RETRY_DELAY_MS])
        EXCEPT !.pending = @ + 1]

\* lorawan.send(MBED_CONF_LORA_APP_PORT, tx_buffer, packet_len,
\*              MSG_UNCONFIRMED_FLAG) answering `status`: the number of bytes
\* taken when the stack accepts them, its negative status otherwise.
lorawan_send_ret(status, packet_len) ==
    IF status = LORAWAN_STATUS_OK THEN packet_len ELSE status

lorawan_send(s, packet_len, retcode) ==
    Log(s, [fn |-> "send", port |-> MBED_CONF_LORA_APP_PORT,
            data |-> Bytes(s.tx_buffer, packet_len),
            flags |-> MSG_UNCONFIRMED_FLAG, ret |-> retcode])

\* send_message without its class C check
send_message_unguarded(s, duty, status) ==
    LET e == [s EXCEPT !.ops = Append(@, [op |-> "send_message",
                                          mode |-> s.is_class_c,
                                          msg |-> Msg_DataFromEndDevice])]
        packet_len == Len(Msg_DataFromEndDevice)
        retcode == lorawan_send_ret(status, packet_len)
        w == [e EXCEPT !.tx_buffer = sprintf(@, Msg_DataFromEndDevice)]
        c == lorawan_send(w, packet_len, retcode)
    IN  IF retcode < 0
        THEN IF retcode = LORAWAN_STATUS_WOULD_BLOCK /\ duty /\ c.is_class_c = 0
             THEN call_in(c)
             ELSE c
        ELSE [c EXCEPT !.tx_buffer = memset0(@)]

\* send_message giving up on would-block
send_message_no_retry(s, duty, status) ==
    LET e == [s EXCEPT !.ops = Append(@, [op |-> "send_message",
                                          mode |-> s.is_class_c,
                                          msg |-> Msg_DataFromEndDevice])]
    IN  IF e.is_class_c # 0 THEN e
        ELSE
        LET packet_len == Len(Msg_DataFromEndDevice)
            retcode == lorawan_send_ret(status, packet_len)
            w == [e EXCEPT !.tx_buffer = sprintf(@, Msg_DataFromEndDevice)]
            c == lorawan_send(w, packet_len, retcode)
        IN  IF retcode < 0 THEN c
            ELSE [c EXCEPT !.tx_buffer = memset0(@)]

\* static void send_message()
send_message(s, duty, status) ==
    LET e == [s EXCEPT !.ops = Append(@, [op |-> "send_message",
                                          mode |-> s.is_class_c,
                                          msg |-> Msg_DataFromEndDevice])]
    IN  IF e.is_class_c # 0 THEN e
        ELSE
        LET packet_len == Len(Msg_DataFromEndDevice)
            retcode == lorawan_send_ret(status, packet_len)
            w == [e EXCEPT !.tx_buffer = sprintf(@, Msg_DataFromEndDevice)]
            c == lorawan_send(w, packet_len, retcode)
        IN  IF retcode < 0
            THEN IF retcode = LORAWAN_STATUS_WOULD_BLOCK
                    /\ duty /\ c.is_class_c = 0
                 THEN call_in(c)
                 ELSE c
            ELSE [c EXCEPT !.tx_buffer = memset0(@)]

\* send_specific_message without its class C check
send_specific_message_unguarded(s, message, duty, status) ==
    LET e == [s EXCEPT !.ops = Append(@, [op |-> "send_specific_message",
                                          mode |-> s.is_class_c,
                                          msg |-> message])]
        packet_len == Len(message)
        retcode == lorawan_send_ret(status, packet_len)
        w == [e EXCEPT !.tx_buffer = sprintf(@, message)]
        c == lorawan_send(w, packet_len, retcode)
    IN  IF retcode < 0
        THEN LET r == call_in(c)
             IN  IF retcode = LORAWAN_STATUS_WOULD_BLOCK
                    /\ duty /\ r.is_class_c = 0
                 THEN call_in(r)
                 ELSE r
        ELSE [c EXCEPT !.tx_buffer = memset0(@)]

\* static void send_specific_message(string message)
send_specific_message(s, message, duty, status) ==
    LET e == [s EXCEPT !.ops = Append(@, [op |-> "send_specific_message",
                                          mode |-> s.is_class_c,
                                          msg |-> message])]
    IN  IF e.is_class_c # 0 THEN e
        ELSE
        LET packet_len == Len(message)
            retcode == lorawan_send_ret(status, packet_len)
            w == [e EXCEPT !.tx_buffer = sprintf(@, message)]
            c == lorawan_send(w, packet_len, retcode)
        IN  IF retcode < 0
            THEN LET r == call_in(c)
                 IN  IF retcode = LORAWAN_STATUS_WOULD_BLOCK
                        /\ duty /\ r.is_class_c = 0
                     THEN call_in(r)
                     ELSE r
            ELSE [c EXCEPT !.tx_buffer = memset0(@)]

\* switch_to_class_c leaving the green indicator on
switch_to_class_c_green_on(s, duty, class_ret, status) ==
    LET c == Log(s, [fn |-> "set_device_class", cls |-> CLASS_C,
                     ret |-> class_ret])
        m == [c EXCEPT !.blue_led = ON, !.is_class_c = 1]
    IN  send_specific_message(m, Msg_ClassCSwitch, duty, status)

\* static void switch_to_class_c()
switch_to_class_c(s, duty, class_ret, status) ==
    LET c == Log(s, [fn |-> "set_device_class", cls |-> CLASS_C,
                     ret |-> class_ret])
        m == [c EXCEPT !.blue_led = ON, !.green_led = OFF, !.is_class_c = 1]
    IN  send_specific_message(m, Msg_ClassCSwitch, duty, status)

\* switch_to_class_a leaving the blue indicator on
switch_to_class_a_blue_on(s, duty, class_ret, status) ==
    LET c == Log(s, [fn |-> "set_device_class", cls |-> CLASS_A,
                     ret |-> class_ret])
        m == [c EXCEPT !.green_led = ON, !.is_class_c = 0]
    IN  send_specific_message(m, Msg_ClassAInit, duty, status)

\* switch_to_class_a giving up when the stack refuses the class
switch_to_class_a_gated(s, duty, class_ret, status) ==
    LET c == Log(s, [fn |-> "set_device_class", cls |-> CLASS_A,
                     ret |-> class_ret])
        m == [c EXCEPT !.blue_led = OFF, !.green_led = ON, !.is_class_c = 0]
    IN  IF class_ret = LORAWAN_STATUS_OK
        THEN send_specific_message(m, Msg_ClassAInit, duty, status)
        ELSE c

\* static void switch_to_class_a()
switch_to_class_a(s, duty, class_ret, status) ==
    LET c == Log(s, [fn |-> "set_device_class", cls |-> CLASS_A,
                     ret |-> class_ret])
        m == [c EXCEPT !.blue_led = OFF, !.green_led = ON, !.is_class_c = 0]
    IN  send_specific_message(m, Msg_ClassAInit, duty, status)

\* receive_message without the final memset of rx_buffer
receive_message_no_clear(s, duty, rx_ret, rx_data, class_ret, status) ==
    LET n == [s EXCEPT !.receive_count = (@ + 1) % COUNT_MOD]
        r == Log([n EXCEPT !.rx_buffer =
                      IF rx_ret >= 0 THEN copy_in(@, rx_data) ELSE @],
                 [fn |-> "receive", ret |-> rx_ret])
    IN  IF rx_ret # LORAWAN_STATUS_WOULD_BLOCK /\ rx_ret < 0 THEN r
        ELSE
        LET a == IF streq(r.rx_buffer, Msg_ClassCSwitch)
                 THEN switch_to_class_c(r, duty, class_ret, status)
                 ELSE r
        IN  IF streq(a.rx_buffer, Msg_ClassASwitch)
            THEN switch_to_class_a(a, duty, class_ret, status)
            ELSE a

\* static void receive_message(): rx_ret is what lorawan.receive returns, the
\* number of bytes of rx_data it copied or a negative status (nothing copied).
receive_message(s, duty, rx_ret, rx_data, class_ret, status) ==
    LET n == [s EXCEPT !.receive_count = (@ + 1) % COUNT_MOD]
        r == Log([n EXCEPT !.rx_buffer =
                      IF rx_ret >= 0 THEN copy_in(@, rx_data) ELSE @],
                 [fn |-> "receive", ret |-> rx_ret])
    IN  IF rx_ret # LORAWAN_STATUS_WOULD_BLOCK /\ rx_ret < 0 THEN r
        ELSE
        LET a == IF streq(r.rx_buffer, Msg_ClassCSwitch)
                 THEN switch_to_class_c(r, duty, class_ret, status)
                 ELSE r
            b == IF streq(a.rx_buffer, Msg_ClassASwitch)
                 THEN switch_to_class_a(a, duty, class_ret, status)
                 ELSE a
        IN  [b EXCEPT !.rx_buffer = memset0(@)]

\* MBED_ASSERT(expr): the program dies when expr is zero.
MBED_ASSERT(s, expr) == IF expr # 0 THEN s ELSE [s EXCEPT !.halted = TRUE]

\* the address of the string literal "Unknown Event": not a null pointer
UnknownEventLiteral == 1

LogOnlyEvents ==
    {"TX_TIMEOUT", "TX_ERROR", "TX_CRYPTO_ERROR", "TX_SCHEDULING_ERROR",
     "RX_TIMEOUT", "RX_ERROR", "JOIN_FAILURE", "UPLINK_REQUIRED",
     "CLASS_CHANGED"}

\* an event value the switch has no case for
UnknownEvents == {"AUTOMATIC_UPLINK_ERROR"}

\* case CONNECTED starting the periodic send, whatever the build
case_CONNECTED_periodic(s, duty, status) == send_message(s, duty, status)

\* case CONNECTED
case_CONNECTED(s, duty, status) ==
    IF duty
    THEN IF s.is_class_c = 1
         THEN send_specific_message(s, Msg_ClassCInit, duty, status)
         ELSE send_specific_message(s, Msg_ClassAInit, duty, status)
    ELSE s

\* case DISCONNECTED without the call of break_dispatch
case_DISCONNECTED_no_break(s) == s

\* case DISCONNECTED
case_DISCONNECTED(s) ==
    Log([s EXCEPT !.break_requested = TRUE], [fn |-> "break_dispatch"])

\* case TX_DONE sending whatever the build and the mode
case_TX_DONE_always(s, duty, status) == send_message_unguarded(s, duty, status)

\* case TX_DONE
case_TX_DONE(s, duty, status) ==
    IF duty /\ s.is_class_c = 1 THEN s
    ELSE IF duty /\ s.is_class_c = 0 THEN send_message(s, duty, status)
    ELSE s

\* the transmission error cases and UPLINK_REQUIRED with their send_message
\* calls in place
case_log_only_retry(s, event, duty, status) ==
    IF duty /\ event \in {"TX_TIMEOUT", "TX_ERROR", "TX_CRYPTO_ERROR",
                          "TX_SCHEDULING_ERROR", "UPLINK_REQUIRED"}
    THEN send_message(s, duty, status)
    ELSE s

\* cases TX_TIMEOUT .. TX_SCHEDULING_ERROR, RX_TIMEOUT, RX_ERROR,
\* JOIN_FAILURE, UPLINK_REQUIRED, CLASS_CHANGED: a printf, nothing else
case_log_only(s, event, duty, status) == s

\* static void lora_event_handler(lorawan_event_t event)
lora_event_handler(s, event, duty, rx_ret, rx_data, class_ret, status) ==
    CASE event = "CONNECTED" -> case_CONNECTED(s, duty, status)
      [] event = "DISCONNECTED" -> case_DISCONNECTED(s)
      [] event = "TX_DONE" -> case_TX_DONE(s, duty, status)
      [] event = "RX_DONE" ->
            receive_message(s, duty, rx_ret, rx_data, class_ret, status)
      [] event \in LogOnlyEvents -> case_log_only(s, event, duty, status)
      [] OTHER -> MBED_ASSERT(s, UnknownEventLiteral)

----------------------------------------------------------------------------
(* What the environment can hand to the program *)

\* statuses of the configuration calls and of set_device_class
CallStatuses == {LORAWAN_STATUS_OK, LORAWAN_STATUS_BUSY}

\* statuses of lorawan.connect()
ConnectStatuses ==
    {LORAWAN_STATUS_OK, LORAWAN_STATUS_CONNECT_IN_PROGRESS, LORAWAN_STATUS_BUSY}

\* statuses of lorawan.send()
SendStatuses ==
    {LORAWAN_STATUS_OK, LORAWAN_STATUS_WOULD_BLOCK, LORAWAN_STATUS_BUSY}

\* negative results of lorawan.receive()
ReceiveErrors == {LORAWAN_STATUS_WOULD_BLOCK, LORAWAN_STATUS_BUSY}

\* downlink payloads: the two commands, texts near them, a command followed
\* by a zero byte and more, the empty frame and a frame filling the buffer
Downlinks ==
    {Msg_ClassCSwitch, Msg_ClassASwitch,
     <<>>,
     SubSeq(Msg_ClassCSwitch, 1, 11),
     Msg_ClassCSwitch \o <<88>>,
     Msg_ClassCSwitch \o <<0>>,
     Msg_ClassASwitch \o <<0, 88>>,
     Msg_ClassCSwitch \o [i \in 1..(BUF_SIZE - 12) |-> 88]}

NoCallback == [cb |-> "none", rx_ret |-> 0, rx_data |-> <<>>]

----------------------------------------------------------------------------
(* Initial state: the globals as constructed, main not yet started *)

\* no callback is waiting to run after a break
NoneDue == [events |-> 0, retries |-> 0]

Init ==
    /\ pc = "start"
    /\ exit_code = <<>>
    /\ main_calls = <<>>
    /\ duty_cycle_on \in BOOLEAN
    /\ is_class_c = 0
    /\ green_led = OFF
    /\ blue_led = OFF
    /\ tx_buffer = Zeros
    /\ rx_buffer = Zeros
    /\ receive_count = 0
    /\ pending = 0
    /\ break_requested = FALSE
    /\ due = NoneDue
    /\ last = NoCallback
    /\ before = Snapshot(AppState)
    /\ calls = <<>>
    /\ ops = <<>>
    /\ retry_sends = 0

app_vars == <<is_class_c, blue_led, tx_buffer, rx_buffer, receive_count,
              pending, break_requested, due, last, before, calls, ops,
              retry_sends>>

----------------------------------------------------------------------------
(* main, one step per stack call *)

\* a failed step: main prints and returns -1
MainStep(name, ret, ok, next) ==
    /\ main_calls' = Append(main_calls, [fn |-> name, ret |-> ret])
    /\ IF ok
       THEN pc' = next /\ exit_code' = exit_code
       ELSE pc' = "returned" /\ exit_code' = <<-1>>

\* main going on after a failed lorawan.initialize()
main_initialize_unchecked ==
    /\ pc = "start"
    /\ green_led' = ON
    /\ \E ret \in CallStatuses :
          MainStep("initialize", ret, TRUE, "initialized")
    /\ UNCHANGED <<duty_cycle_on, app_vars>>

\* green_led = ON; lorawan.initialize(&ev_queue); add_app_callbacks
main_initialize ==
    /\ pc = "start"
    /\ green_led' = ON
    /\ \E ret \in CallStatuses :
          MainStep("initialize", ret, ret = LORAWAN_STATUS_OK, "initialized")
    /\ UNCHANGED <<duty_cycle_on, app_vars>>

\* lorawan.set_confirmed_msg_retries(CONFIRMED_MSG_RETRY_COUNTER)
main_set_confirmed_msg_retries ==
    /\ pc = "initialized"
    /\ \E ret \in CallStatuses :
          MainStep("set_confirmed_msg_retries", ret,
                   ret = LORAWAN_STATUS_OK, "retries_set")
    /\ UNCHANGED <<duty_cycle_on, green_led, app_vars>>

\* lorawan.enable_adaptive_datarate()
main_enable_adaptive_datarate ==
    /\ pc = "retries_set"
    /\ \E ret \in CallStatuses :
          MainStep("enable_adaptive_datarate", ret,
                   ret = LORAWAN_STATUS_OK, "adr_enabled")
    /\ UNCHANGED <<duty_cycle_on, green_led, app_vars>>

\* lorawan.connect(), then ev_queue.dispatch_forever() is entered
main_connect ==
    /\ pc = "adr_enabled"
    /\ \E ret \in ConnectStatuses :
          MainStep("connect", ret,
                   ret = LORAWAN_STATUS_OK
                       \/ ret = LORAWAN_STATUS_CONNECT_IN_PROGRESS,
                   "dispatching")
    /\ UNCHANGED <<duty_cycle_on, green_led, app_vars>>

\* dispatch_forever() returns once break_dispatch() was called and the
\* callbacks taken off with the breaking one have run; return 0
main_return ==
    /\ pc = "dispatching"
    /\ break_requested
    /\ due = NoneDue
    /\ pc' = "returned"
    /\ exit_code' = <<0>>
    /\ UNCHANGED <<main_calls, duty_cycle_on, green_led, app_vars>>

----------------------------------------------------------------------------
(* The event queue dispatching one callback to completion *)

\* The queue is an external library.  It runs one callback at a time, in
\* whatever order stack events arrive and delayed calls come due.  The
\* dispatch loop takes every callback that is due off the queue in one go,
\* runs them all and only then looks at the break request: after
\* break_dispatch() it takes nothing more off the queue, but the callbacks
\* it had taken off together with the breaking one still run.
Dispatching(kind) ==
    /\ pc = "dispatching"
    /\ ~break_requested \/ due[kind] > 0

\* what may have been taken off the queue with a callback that found `p`
\* retries waiting: stack events posted by then and retries that were due
Batches(p) ==
    {b \in [events : 0..MaxDue, retries : 0..MaxDue] :
        b.events + b.retries <= MaxDue /\ b.retries <= p}

DueKind(cb) == IF cb.cb = "send_message" THEN "retries" ELSE "events"

\* the state after a callback that started in AppState and ended in t
Finish(cb, t) ==
    /\ IF break_requested
       THEN due' = [due EXCEPT ![DueKind(cb)] = @ - 1]
       ELSE IF t.break_requested
            THEN due' \in Batches(t.pending)
            ELSE due' = due
    /\ last' = cb
    /\ before' = Snapshot(AppState)
    /\ is_class_c' = t.is_class_c
    /\ green_led' = t.green_led
    /\ blue_led' = t.blue_led
    /\ tx_buffer' = t.tx_buffer
    /\ rx_buffer' = t.rx_buffer
    /\ receive_count' = t.receive_count
    /\ pending' = t.pending
    /\ break_requested' = t.break_requested
    /\ calls' = t.calls
    /\ ops' = t.ops
    /\ retry_sends' =
          IF cb.cb = "send_message" /\ Len(CallsToIn(t.calls, "send")) > 0
          THEN (retry_sends + 1) % 2
          ELSE retry_sends
    /\ pc' = IF t.halted THEN "halted" ELSE pc
    /\ UNCHANGED <<exit_code, main_calls, duty_cycle_on>>

\* the same while no more than MaxPending retries wait
Run(cb, t) == t.pending <= MaxPending /\ Finish(cb, t)

Event(kind) == [cb |-> kind, rx_ret |-> 0, rx_data |-> <<>>]

Handle(event, status) ==
    lora_event_handler(AppState, event, duty_cycle_on, 0, <<>>,
                       LORAWAN_STATUS_OK, status)

on_connected ==
    /\ Dispatching("events")
    /\ \E status \in SendStatuses :
          Run(Event("CONNECTED"), Handle("CONNECTED", status))

on_disconnected ==
    /\ Dispatching("events")
    /\ Run(Event("DISCONNECTED"), Handle("DISCONNECTED", LORAWAN_STATUS_OK))

on_tx_done ==
    /\ Dispatching("events")
    /\ \E status \in SendStatuses :
          Run(Event("TX_DONE"), Handle("TX_DONE", status))

on_log_only ==
    /\ Dispatching("events")
    /\ \E kind \in LogOnlyEvents :
          Run(Event(kind), Handle(kind, LORAWAN_STATUS_OK))

on_unknown ==
    /\ Dispatching("events")
    /\ \E kind \in UnknownEvents :
          Run(Event(kind), Handle(kind, LORAWAN_STATUS_OK))

\* RX_DONE with a downlink to read
on_rx_done ==
    /\ Dispatching("events")
    /\ receive_count < MaxRx
    /\ \E data \in Downlinks, class_ret \in CallStatuses, status \in SendStatuses :
          Run([cb |-> "RX_DONE", rx_ret |-> Len(data), rx_data |-> data],
                 lora_event_handler(AppState, "RX_DONE", duty_cycle_on,
                                    Len(data), data, class_ret, status))

\* RX_DONE with lorawan.receive() answering a negative status
on_rx_done_error ==
    /\ Dispatching("events")
    /\ receive_count < MaxRx
    /\ \E err \in ReceiveErrors :
          Run([cb |-> "RX_DONE", rx_ret |-> err, rx_data |-> <<>>],
                 lora_event_handler(AppState, "RX_DONE", duty_cycle_on,
                                    err, <<>>, LORAWAN_STATUS_OK,
                                    LORAWAN_STATUS_OK))

\* a delayed send_message scheduled with call_in comes due
on_retry ==
    /\ Dispatching("retries")
    /\ pending > 0
    /\ \E status \in SendStatuses :
          Finish(Event("send_message"),
                 send_message([AppState EXCEPT !.pending = @ - 1],
                              duty_cycle_on, status))

Next ==
    \/ main_initialize
    \/ main_set_confirmed_msg_retries
    \/ main_enable_adaptive_datarate
    \/ main_connect
    \/ main_return
    \/ on_connected
    \/ on_disconnected
    \/ on_tx_done
    \/ on_log_only
    \/ on_unknown
    \/ on_rx_done
    \/ on_rx_done_error
    \/ on_retry

Spec == Init /\ [][Next]_vars

\* The events explored under fairness: the ones that send or change the
\* mode, arriving while fewer than MaxLivePending retries wait.
QuietQueue == pending < MaxLivePending

live_connected == QuietQueue /\ on_connected

live_tx_done == QuietQueue /\ on_tx_done

\* RX_DONE delivering one of the two commands
live_rx_command ==
    /\ Dispatching("events")
    /\ QuietQueue
    /\ receive_count < MaxLiveRx
    /\ \E data \in {Msg_ClassCSwitch, Msg_ClassASwitch}, status \in SendStatuses :
          Run([cb |-> "RX_DONE", rx_ret |-> Len(data), rx_data |-> data],
                 lora_event_handler(AppState, "RX_DONE", duty_cycle_on,
                                    Len(data), data, LORAWAN_STATUS_OK, status))

NextLive ==
    \/ main_initialize
    \/ main_set_confirmed_msg_retries
    \/ main_enable_adaptive_datarate
    \/ main_connect
    \/ main_return
    \/ live_connected
    \/ on_disconnected
    \/ live_tx_done
    \/ live_rx_command
    \/ on_retry

\* While the queue dispatches, a delayed call that is due is run: the timer
\* of a pending retry expires after 3000 ms whatever else arrives.
FairSpec == Init /\ [][NextLive]_vars /\ WF_vars(on_retry)

\* RX_DONE for as long as the device runs, with nothing to read: an empty
\* frame or a negative answer of lorawan.receive()
on_rx_done_nothing ==
    /\ Dispatching("events")
    /\ \E ret \in ReceiveErrors \cup {0} :
          Run([cb |-> "RX_DONE", rx_ret |-> ret, rx_data |-> <<>>],
                 lora_event_handler(AppState, "RX_DONE", duty_cycle_on,
                                    ret, <<>>, LORAWAN_STATUS_OK,
                                    LORAWAN_STATUS_OK))

\* the device joining and then only receiving, any number of times
NextCount ==
    \/ main_initialize
    \/ main_set_confirmed_msg_retries
    \/ main_enable_adaptive_datarate
    \/ main_connect
    \/ on_rx_done_nothing

SpecCount == Init /\ [][NextCount]_vars

\* CONNECTED with up to MAX_NUMBER_OF_EVENTS retries waiting
queue_connected ==
    /\ Dispatching("events")
    /\ pending <= MAX_NUMBER_OF_EVENTS
    /\ \E status \in SendStatuses :
          Finish(Event("CONNECTED"), Handle("CONNECTED", status))

\* the device joining again and again while its retries come due
NextQueue ==
    \/ main_initialize
    \/ main_set_confirmed_msg_retries
    \/ main_enable_adaptive_datarate
    \/ main_connect
    \/ queue_connected
    \/ on_retry

SpecQueue == Init /\ [][NextQueue]_vars

TypeOK ==
    /\ pc \in {"start", "initialized", "retries_set", "adr_enabled",
               "dispatching", "returned", "halted"}
    /\ exit_code \in {<<>>, <<0>>, <<-1>>}
    /\ is_class_c \in {0, 1}
    /\ green_led \in {OFF, ON}
    /\ blue_led \in {OFF, ON}
    /\ pending \in Nat
    /\ break_requested \in BOOLEAN
    /\ due \in Batches(MaxDue)
    /\ receive_count \in 0..(COUNT_MOD - 1)
    /\ retry_sends \in {0, 1}

----------------------------------------------------------------------------
(* Reading the log of the callback dispatched last *)

CallsTo(name) == CallsToIn(calls, name)

NoStackSend == Len(CallsTo("send")) = 0

NoRetryScheduled == Len(CallsTo("call_in")) = 0

IndicatorsAsBefore ==
    green_led = before.green_led /\ blue_led = before.blue_led

\* the last callback was RX_DONE and lorawan.receive() delivered a downlink
ReceivedDownlink == last.cb = "RX_DONE" /\ last.rx_ret >= 0

----------------------------------------------------------------------------
(* C1: whenever send_message or send_specific_message is entered while the *)
(* mode flag is C, the callback makes no lorawan.send call, leaves the     *)
(* transmit buffer as it was and schedules no retry.                       *)
C1_SendsSuppressedInClassC ==
    (\E i \in 1..Len(ops) : ops[i].mode # 0) =>
        /\ NoStackSend
        /\ NoRetryScheduled
        /\ tx_buffer = before.tx_buffer

\* a retry scheduled in mode A came due after the switch to C, with stale
\* bytes of the failed send still in the transmit buffer
C1_Witness ==
    /\ last.cb = "send_message"
    /\ before.is_class_c = 1
    /\ Len(ops) = 1 /\ ops[1].op = "send_message" /\ ops[1].mode = 1
    /\ tx_buffer # Zeros

(* C2: RX_DONE with payload "ClassCSwitch" handled in mode A ends with the *)
(* mode flag C, the blue indicator on and the green indicator off, both    *)
(* the opposite of what they were.                                         *)
C2_SwitchToClassC ==
    (ReceivedDownlink /\ last.rx_data = Msg_ClassCSwitch
                      /\ before.is_class_c = 0) =>
        /\ is_class_c = 1
        /\ blue_led = ON /\ before.blue_led = OFF
        /\ green_led = OFF /\ before.green_led = ON

C2_Witness ==
    /\ ReceivedDownlink /\ last.rx_data = Msg_ClassCSwitch
    /\ before.is_class_c = 0
    /\ is_class_c = 1

(* C3, as claimed: handling RX_DONE with payload "ClassCSwitch" in mode A  *)
(* calls lorawan.send exactly once, with the payload "ClassCSwitch".       *)
C3_Claim_OneAnnouncement ==
    (ReceivedDownlink /\ last.rx_data = Msg_ClassCSwitch
                      /\ before.is_class_c = 0) =>
        /\ Len(CallsTo("send")) = 1
        /\ CallsTo("send")[1].data = Msg_ClassCSwitch

\* the state receive_message ends in when it runs on s (its log cleared)
Replay(s, data, class_ret, status) ==
    receive_message([s EXCEPT !.calls = <<>>, !.ops = <<>>], duty_cycle_on,
                    Len(data), data, class_ret, status)

\* the application state without the receive counter
Settled(s) == [Snapshot(s) EXCEPT !.receive_count = 0]

(* C4: RX_DONE with payload "ClassCSwitch" handled in mode C leaves the    *)
(* mode flag, both indicators, both buffers and the pending retries as     *)
(* they were; it advances the receive counter, asks the stack for class C  *)
(* again and sends nothing; handling the same downlink once more ends in   *)
(* the same state, receive counter aside.                                  *)
C4_ClassCSwitchIdempotent ==
    (ReceivedDownlink /\ last.rx_data = Msg_ClassCSwitch
                      /\ before.is_class_c = 1) =>
        /\ Settled(AppState) = Settled(before)
        /\ receive_count = (before.receive_count + 1) % COUNT_MOD
        /\ Len(CallsTo("set_device_class")) = 1
        /\ CallsTo("set_device_class")[1].cls = CLASS_C
        /\ NoStackSend
        /\ \A class_ret \in CallStatuses, status \in SendStatuses :
              Settled(Replay(AppState, Msg_ClassCSwitch, class_ret, status))
                  = Settled(AppState)

\* with a retry pending and stale bytes in the transmit buffer, so that a
\* repeated side effect would show
C4_Witness ==
    /\ ReceivedDownlink /\ last.rx_data = Msg_ClassCSwitch
    /\ before.is_class_c = 1
    /\ pending > 0
    /\ tx_buffer # Zeros

ModeKept ==
    /\ is_class_c = before.is_class_c
    /\ IndicatorsAsBefore
    /\ Len(CallsTo("set_device_class")) = 0

(* C5, as claimed: every downlink whose bytes are not exactly              *)
(* "ClassCSwitch" or "ClassASwitch" leaves the mode flag and indicators    *)
(* unchanged and requests no class change.                                 *)
C5_Claim_OnlyExactCommands ==
    (ReceivedDownlink
        /\ last.rx_data \notin {Msg_ClassCSwitch, Msg_ClassASwitch}) =>
        ModeKept

(* C5, amended: every downlink whose text up to its first zero byte (the   *)
(* whole payload when it has none) is not "ClassCSwitch" or "ClassASwitch" *)
(* leaves the mode flag and indicators unchanged and requests no class     *)
(* change.                                                                 *)
C5_OtherTextIgnored ==
    (ReceivedDownlink
        /\ CText(last.rx_data) \notin {Msg_ClassCSwitch, Msg_ClassASwitch}) =>
        ModeKept

\* a downlink that starts with a command and goes on
C5_Witness ==
    /\ ReceivedDownlink
    /\ last.rx_data = Msg_ClassCSwitch \o <<88>>
    /\ before.is_class_c = 0
    /\ is_class_c = 0

(* C6, as claimed: in a callback whose send operation got a negative       *)
(* result from lorawan.send, exactly one retry is scheduled when the       *)
(* result is would-block, duty-cycling is enabled and the mode is A, and   *)
(* none otherwise.                                                         *)
C6_Claim_OneRetryOnWouldBlock ==
    (Len(CallsTo("send")) = 1 /\ CallsTo("send")[1].ret < 0) =>
        Len(CallsTo("call_in")) =
            IF /\ CallsTo("send")[1].ret = LORAWAN_STATUS_WOULD_BLOCK
               /\ duty_cycle_on
               /\ is_class_c = 0
            THEN 1 ELSE 0

(* C7: CONNECTED handled with duty-cycling enabled in mode A calls         *)
(* lorawan.send exactly once, with "ClassAInit", unconfirmed, on the       *)
(* application port; with duty-cycling disabled CONNECTED makes no call    *)
(* and schedules nothing.                                                  *)
C7_ConnectedAnnouncesClassA ==
    /\ (last.cb = "CONNECTED" /\ duty_cycle_on /\ before.is_class_c = 0) =>
          /\ Len(CallsTo("send")) = 1
          /\ CallsTo("send")[1].data = Msg_ClassAInit
          /\ CallsTo("send")[1].port = MBED_CONF_LORA_APP_PORT
          /\ CallsTo("send")[1].flags = MSG_UNCONFIRMED_FLAG
    /\ (last.cb = "CONNECTED" /\ ~duty_cycle_on) =>
          /\ calls = <<>>
          /\ pending = before.pending

C7_Witness ==
    /\ last.cb = "CONNECTED" /\ duty_cycle_on /\ before.is_class_c = 0
    /\ Len(CallsTo("send")) = 1
    /\ CallsTo("send")[1].ret = Len(Msg_ClassAInit)

\* C8 as stated: once DISCONNECTED has been handled the only thing that
\* happens is main returning 0; no further callback runs, so the log of the
\* last callback, the pending retries and the application state stay as the
\* DISCONNECTED handler left them.
C8_Claim_NothingRunsAfterDisconnect ==
    [][last.cb = "DISCONNECTED" =>
          /\ pc' = "returned" /\ exit_code' = <<0>>
          /\ UNCHANGED <<last, before, calls, ops, pending, is_class_c,
                         green_led, blue_led, tx_buffer, rx_buffer,
                         receive_count, main_calls>>]_vars

(* C8: handling DISCONNECTED requests the break.  From then on every step  *)
(* either runs one of the callbacks the queue had taken off as due         *)
(* together with the DISCONNECTED one, or, when none of them is left, is   *)
(* main returning 0 with the retries still waiting never run: no callback  *)
(* that is posted or comes due later runs.                                 *)
C8_LoopEndsAfterDisconnect ==
    [][/\ last'.cb = "DISCONNECTED" => break_requested'
       /\ break_requested =>
             \/ /\ due # NoneDue
                /\ due'.events + due'.retries = due.events + due.retries - 1
                /\ due'.events <= due.events /\ due'.retries <= due.retries
                /\ last'.cb = "send_message" <=> due'.retries < due.retries
                /\ break_requested'
                /\ pc' = pc /\ exit_code' = exit_code
             \/ /\ due = NoneDue
                /\ pc' = "returned" /\ exit_code' = <<0>>
                /\ UNCHANGED <<last, before, calls, ops, pending, is_class_c,
                               green_led, blue_led, tx_buffer, rx_buffer,
                               receive_count, main_calls>>]_vars

\* main has returned 0 after a retry that was already due ran behind the
\* DISCONNECTED handler and sent, with another retry left in the queue
C8_Witness ==
    /\ pc = "returned" /\ exit_code = <<0>>
    /\ break_requested /\ before.break_requested
    /\ last.cb = "send_message"
    /\ Len(CallsTo("send")) = 1
    /\ pending > 0

StartupOrder ==
    <<"initialize", "set_confirmed_msg_retries", "enable_adaptive_datarate",
      "connect">>

StepSucceeded(c) ==
    IF c.fn = "connect"
    THEN c.ret \in {LORAWAN_STATUS_OK, LORAWAN_STATUS_CONNECT_IN_PROGRESS}
    ELSE c.ret = LORAWAN_STATUS_OK

(* C9: main calls initialize, set_confirmed_msg_retries,                   *)
(* enable_adaptive_datarate and connect in this order; a call that fails   *)
(* is the last one and main returns -1 without dispatching; the event      *)
(* loop is entered, and a callback runs, only after all four succeeded.    *)
C9_StartupFailFast ==
    /\ Len(main_calls) <= Len(StartupOrder)
    /\ \A i \in 1..Len(main_calls) :
          /\ main_calls[i].fn = StartupOrder[i]
          /\ i < Len(main_calls) => StepSucceeded(main_calls[i])
          /\ ~StepSucceeded(main_calls[i]) =>
                pc = "returned" /\ exit_code = <<-1>> /\ last = NoCallback
    /\ exit_code = <<-1>> =>
          /\ main_calls # <<>>
          /\ ~StepSucceeded(main_calls[Len(main_calls)])
    /\ (pc = "dispatching" \/ exit_code = <<0>> \/ last # NoCallback) =>
          /\ Len(main_calls) = Len(StartupOrder)
          /\ \A i \in 1..Len(main_calls) : StepSucceeded(main_calls[i])

\* initialize failed: main returned -1 and connect was never called
C9_Witness ==
    /\ pc = "returned" /\ exit_code = <<-1>>
    /\ Len(main_calls) = 1
    /\ main_calls[1].fn = "initialize"
    /\ main_calls[1].ret # LORAWAN_STATUS_OK

(* C10, as claimed: an event kind the handler has no case for stops the    *)
(* program in a failed assertion.                                          *)
C10_Claim_UnknownEventIsFatal ==
    last.cb \in UnknownEvents => pc = "halted"

(* C11: TX_DONE handled with duty-cycling enabled in mode A runs           *)
(* send_message inside the handler: exactly one lorawan.send, with         *)
(* "DataFromEndDevice"; in mode C, or with duty-cycling disabled, TX_DONE  *)
(* makes no call, schedules nothing and changes no state.                  *)
C11_TxDoneSendsNext ==
    /\ (last.cb = "TX_DONE" /\ duty_cycle_on /\ before.is_class_c = 0) =>
          /\ Len(ops) = 1 /\ ops[1].op = "send_message"
          /\ Len(CallsTo("send")) = 1
          /\ CallsTo("send")[1].data = Msg_DataFromEndDevice
    /\ (last.cb = "TX_DONE" /\ (~duty_cycle_on \/ before.is_class_c # 0)) =>
          /\ calls = <<>>
          /\ ops = <<>>
          /\ Snapshot(AppState) = before

C11_Witness ==
    /\ last.cb = "TX_DONE" /\ duty_cycle_on /\ before.is_class_c = 0
    /\ Len(CallsTo("send")) = 1
    /\ CallsTo("send")[1].ret = Len(Msg_DataFromEndDevice)

\* what a switch operation leaves behind, its log of stack calls aside
SwitchOutcome(s) == <<Snapshot(s), s.ops, CallsToIn(s.calls, "send")>>

(* C12: a callback that asks the stack for a class ends with the mode flag *)
(* and the indicators showing that class and has entered                   *)
(* send_specific_message with the announcement ("ClassCSwitch" for C,      *)
(* "ClassAInit" for A), whether set_device_class answered OK or an error;  *)
(* the answer changes nothing in what either switch operation does.        *)
C12_SwitchIgnoresStackAnswer ==
    /\ Len(CallsTo("set_device_class")) > 0 =>
          LET req == CallsTo("set_device_class")[1]
              to_c == req.cls = CLASS_C
          IN  /\ Len(CallsTo("set_device_class")) = 1
              /\ is_class_c = IF to_c THEN 1 ELSE 0
              /\ blue_led = IF to_c THEN ON ELSE OFF
              /\ green_led = IF to_c THEN OFF ELSE ON
              /\ Len(ops) = 1
              /\ ops[1].op = "send_specific_message"
              /\ ops[1].msg = IF to_c THEN Msg_ClassCSwitch ELSE Msg_ClassAInit
    /\ \A a, b \in CallStatuses, status \in SendStatuses :
          /\ SwitchOutcome(switch_to_class_c(AppState, duty_cycle_on, a, status))
               = SwitchOutcome(switch_to_class_c(AppState, duty_cycle_on, b, status))
          /\ SwitchOutcome(switch_to_class_a(AppState, duty_cycle_on, a, status))
               = SwitchOutcome(switch_to_class_a(AppState, duty_cycle_on, b, status))

\* the stack refused class A and the device went to mode A and announced it
C12_Witness ==
    /\ Len(CallsTo("set_device_class")) = 1
    /\ CallsTo("set_device_class")[1].cls = CLASS_A
    /\ CallsTo("set_device_class")[1].ret # LORAWAN_STATUS_OK
    /\ before.is_class_c = 1
    /\ is_class_c = 0
    /\ Len(CallsTo("send")) = 1

(* C13, as claimed: CONNECTED handled with duty-cycling enabled in mode C  *)
(* calls lorawan.send once, with the payload "ClassCInit".                 *)
C13_Claim_ConnectedAnnouncesClassC ==
    (last.cb = "CONNECTED" /\ duty_cycle_on /\ before.is_class_c = 1) =>
        /\ Len(CallsTo("send")) = 1
        /\ CallsTo("send")[1].data = Msg_ClassCInit

(* C14: RX_DONE handled with lorawan.receive answering -1001 (nothing to   *)
(* read) compares an all-zero receive buffer, whatever was received        *)
(* before: it changes neither mode flag nor indicators, asks for no class  *)
(* change and sends nothing.                                               *)
C14_NothingToReadIsBenign ==
    (last.cb = "RX_DONE" /\ last.rx_ret = LORAWAN_STATUS_WOULD_BLOCK) =>
        /\ before.rx_buffer = Zeros
        /\ rx_buffer = Zeros
        /\ ModeKept
        /\ ops = <<>>
        /\ NoStackSend
        /\ NoRetryScheduled

\* nothing to read after two earlier receptions, one of them the command
\* that put the device in mode C
C14_Witness ==
    /\ last.cb = "RX_DONE" /\ last.rx_ret = LORAWAN_STATUS_WOULD_BLOCK
    /\ before.receive_count >= 2
    /\ is_class_c = 1

(* C15, as claimed: between any two callbacks the transmit buffer and the  *)
(* receive buffer are all zero.                                            *)
C15_Claim_BuffersClearBetweenCallbacks ==
    tx_buffer = Zeros /\ rx_buffer = Zeros

(* C16, as claimed: the receive counter after an RX_DONE is handled is     *)
(* strictly greater than before it.                                        *)
C16_Claim_CounterStrictlyIncreases ==
    last.cb = "RX_DONE" => receive_count > before.receive_count

(* C17: handling TX_TIMEOUT, TX_ERROR, TX_CRYPTO_ERROR,                    *)
(* TX_SCHEDULING_ERROR, RX_TIMEOUT, RX_ERROR, JOIN_FAILURE,                *)
(* UPLINK_REQUIRED or CLASS_CHANGED makes no stack or queue call, enters   *)
(* no send operation and leaves mode flag, indicators, buffers, receive    *)
(* counter and pending retries as they were, and requests no break.        *)
C17_LogOnlyEventsChangeNothing ==
    last.cb \in LogOnlyEvents =>
        /\ calls = <<>>
        /\ ops = <<>>
        /\ Snapshot(AppState) = before
        /\ break_requested = before.break_requested
        /\ pc # "halted"

\* a transmission error reported with duty-cycling on in mode A, a retry
\* pending and the bytes of a failed send in the transmit buffer
C17_Witness ==
    /\ last.cb = "TX_ERROR"
    /\ duty_cycle_on
    /\ is_class_c = 0
    /\ pending > 0
    /\ tx_buffer # Zeros

(* C18: once main has set the green indicator, between callbacks blue is   *)
(* on exactly when the mode flag is C and green is on exactly when it is   *)
(* A.                                                                      *)
C18_IndicatorsReflectMode ==
    pc # "start" =>
        /\ blue_led = ON <=> is_class_c = 1
        /\ green_led = ON <=> is_class_c = 0
        /\ blue_led # green_led

\* back in mode A after mode C
C18_Witness ==
    /\ ReceivedDownlink
    /\ CText(last.rx_data) = Msg_ClassASwitch
    /\ before.is_class_c = 1 /\ before.blue_led = ON
    /\ is_class_c = 0 /\ green_led = ON /\ blue_led = OFF

(* C19: the delayed send_message retries waiting at the same time never    *)
(* number more than MAX_NUMBER_OF_EVENTS; a retry that runs leaves the     *)
(* queue, and when its send fails with would-block it schedules one        *)
(* retry in its place, so the pending set does not grow by it.             *)
C19_Claim_PendingRetriesBounded ==
    /\ pending <= MAX_NUMBER_OF_EVENTS
    /\ last.cb = "send_message" =>
          /\ Len(CallsTo("call_in")) <= 1
          /\ pending = before.pending - 1 + Len(CallsTo("call_in"))
          /\ pending <= before.pending

\* send_message ran in mode A and lorawan.send answered would-block
WouldBlockInSendMessage ==
    /\ Len(ops) = 1 /\ ops[1].op = "send_message" /\ ops[1].mode = 0
    /\ Len(CallsTo("send")) = 1
    /\ CallsTo("send")[1].ret = LORAWAN_STATUS_WOULD_BLOCK

(* C20: with duty-cycling enabled, after send_message in mode A got        *)
(* would-block, a delayed retry eventually calls lorawan.send again, or    *)
(* the mode is C, or the device has disconnected.                          *)
C20_WouldBlockIsRetried ==
    \A n \in {0, 1} :
        (duty_cycle_on /\ WouldBlockInSendMessage /\ retry_sends = n)
            ~> (retry_sends # n \/ is_class_c = 1 \/ break_requested)

\* a retry scheduled after would-block has run and sent
C20_Witness ==
    /\ duty_cycle_on
    /\ last.cb = "send_message"
    /\ before.is_class_c = 0
    /\ Len(CallsTo("send")) = 1
    /\ CallsTo("send")[1].ret = Len(Msg_DataFromEndDevice)

====
